---- MODULE Spec2Model ----
(***************************************************************************)
(* Model of the index-based directed graph (IGraph / Graph) and of the     *)
(* iterative Tarjan engine that partitions its nodes into strongly         *)
(* connected components.                                                    *)
(*                                                                         *)
(* Sources: rust/src/graph/igraph.rs, rust/src/graph/scc.rs and the older  *)
(* single-file copy rust/graph/src/lib.rs (same code, plus the do_stuff    *)
(* test).  A NodeRef is modelled by the index it wraps; node h of the Vec  *)
(* is element h+1 of the TLA+ sequence.                                    *)
(***************************************************************************)
EXTENDS Integers, Sequences, FiniteSets, TLC

\* ------------------------------------------------------------------ bounds
\* largest number of nodes the general specification creates
MaxNodes == 4
\* largest number of edges the general specification keeps in a graph
MaxEdges == 4
\* largest number of edges of the denser graphs of SpecDense
MaxDenseEdges == 5
\* largest number of nodes and of edges of the graphs of SpecGraph
MaxGraphNodes == 3
MaxGraphEdges == 5
\* largest number of nodes of the cycle graphs (one cycle, or two disjoint)
MaxCycleNodes == 6
\* width of usize in bits; every width behaves alike as long as 2^width
\* exceeds the node count, so the narrowest width rustc supports is used
UsizeBits == 16
\* number of distinct values a Value Graph is given
NumValues == 3
\* largest number of VGraph::create_node calls of SpecVCreate
MaxCreated == 4
\* largest number of nodes and of edges of the Value Graphs of SpecVGraph
MaxVNodes == 3
MaxVEdges == 3

UsizeModulus == 2 ^ UsizeBits

VARIABLES
    igraph,           \* IGraph(Vec<Node>): sequence of [edge_in, edge_out]
    meta,             \* Tarjan.meta: Vec<(bool, usize)> as [visited, label]
    dfs,              \* Tarjan.dfs: stack of NodeRef, top is the last element
    backtrack,        \* Tarjan.backtrack: stack of NodeRef
    index,            \* Tarjan.index
    label,            \* Tarjan.label
    output,           \* Tarjan.output, and the Vec returned by scc()
    nr,               \* loop variable of the for loop in Tarjan::scc
    pc,               \* "idle" | "scc" | "search" | "cleanup" | "done" | "panicked"
    overflow_checks,  \* build profile: TRUE panics on usize overflow, FALSE wraps
    prev,             \* history: results of the previous computation
    vs,               \* VGraph.vs: HashMap<T, NodeRef> as a function
    ns,               \* VGraph.ns: Vec<T>
    created           \* history: <<val, nr>> of each VGraph::create_node(val)

vars == <<igraph, meta, dfs, backtrack, index, label, output, nr, pc,
          overflow_checks, prev, vs, ns, created>>

\* ------------------------------------------------------------ IGraph / Graph
NewNode == [edge_in |-> {}, edge_out |-> {}]

IGraphNew == << >>

size(g) == Len(g)

Handles(g) == 0 .. (size(g) - 1)

\* push a default Node; the returned NodeRef is size() - 1 after the push
create_node(g) == Append(g, NewNode)

\* the NodeRef taken from size() after the push, without the - 1
create_node_ref_after(g) == Len(Append(g, [edge_in |-> {}, edge_out |-> {}]))

create_node_ref(g) == size(create_node(g)) - 1

\* add_edge that takes an edge out again when it is already there
add_edge_toggle(g, from, to) ==
    IF to \in g[from + 1].edge_out
    THEN LET g1 == [g EXCEPT ![from + 1].edge_out = @ \ {to}]
         IN  [g1 EXCEPT ![to + 1].edge_in = @ \ {from}]
    ELSE LET g1 == [g EXCEPT ![from + 1].edge_out = @ \cup {to}]
         IN  [g1 EXCEPT ![to + 1].edge_in = @ \cup {from}]

\* add_edge that forgets the incoming set of to
add_edge_out_only(g, from, to) ==
    [g EXCEPT ![from + 1].edge_out = @ \cup {to}]

\* add_edge that stores one-based positions instead of the NodeRef indices
add_edge_one_based(g, from, to) ==
    LET g1 == [g EXCEPT ![from + 1].edge_out = @ \cup {to + 1}]
    IN  [g1 EXCEPT ![to + 1].edge_in = @ \cup {from + 1}]

add_edge(g, from, to) ==
    LET g1 == [g EXCEPT ![from + 1].edge_out = @ \cup {to}]
    IN  [g1 EXCEPT ![to + 1].edge_in = @ \cup {from}]

\* remove_edge that forgets the incoming set of to
remove_edge_out_only(g, from, to) ==
    [g EXCEPT ![from + 1].edge_out = @ \ {to}]

remove_edge(g, from, to) ==
    LET g1 == [g EXCEPT ![from + 1].edge_out = @ \ {to}]
    IN  [g1 EXCEPT ![to + 1].edge_in = @ \ {from}]

children(g, n) == g[n + 1].edge_out

parents(g, n) == g[n + 1].edge_in

Edges(g) == {e \in Handles(g) \X Handles(g) : e[2] \in children(g, e[1])}

\* ------------------------------------------------------------------- VGraph
Values == 1 .. NumValues

\* Option<T>
None == << >>

Some(x) == <<x>>

\* the unit value ()
Unit == << >>

HashMapNew == [v \in {} |-> 0]

\* HashMap::insert: a present key keeps one entry, with the new NodeRef
insert(map, val, h) ==
    [v \in DOMAIN map \cup {val} |-> IF v = val THEN h ELSE map[v]]

node(map, val) == IF val \in DOMAIN map THEN Some(map[val]) ELSE None

\* self.ns[*nr] panics when nr is not an index of ns
value_in_bounds(seq, h) == h \in 0 .. (Len(seq) - 1)

value(seq, h) == seq[h + 1]

\* VGraph::add_edge: the return value and the inner graph it leaves; both
\* lookups are made with from
vgraph_add_edge(g, map, from, to) ==
    LET from_r == node(map, from)
        to_r   == node(map, from)
    IN  IF from_r = None
        THEN [ret |-> None, igraph |-> g]
        ELSE IF to_r = None
        THEN [ret |-> None, igraph |-> g]
        ELSE [ret |-> Some(Unit), igraph |-> add_edge(g, from_r[1], to_r[1])]

\* ------------------------------------------------------------------- SCC<T>
\* Single(T) and Group(HashSet<T>); both carry their node set as a set
Single(n) == [tag |-> "Single", nodes |-> {n}]

Group(g) == [tag |-> "Group", nodes |-> g]

\* ------------------------------------------------------------ usize arithmetic
\* a + b and a - b on usize: the wrapped value, and whether the exact
\* result is out of range (a panic when overflow checks are compiled in)
UsizeAdd(a, b) == (a + b) % UsizeModulus

UsizeAddOverflows(a, b) == a + b >= UsizeModulus

UsizeSub(a, b) == (a + UsizeModulus - b) % UsizeModulus

UsizeSubOverflows(a, b) == a < b

\* ------------------------------------------------------------ Tarjan helpers
Label(m, n) == m[n + 1].label

Visited(m, n) == m[n + 1].visited

SetLabelTo(m, n, l) == [m EXCEPT ![n + 1].label = l]

SetVisited(m, n) == [m EXCEPT ![n + 1].visited = TRUE]

RECURSIVE SetLabelAll(_, _, _)
SetLabelAll(m, g, l) ==
    IF g = {} THEN m
    ELSE LET x == CHOOSE y \in g : TRUE
         IN  SetLabelAll(SetLabelTo(m, x, l), g \ {x}, l)

Last(s) == s[Len(s)]

Pop(s) == SubSeq(s, 1, Len(s) - 1)

\* the orders in which a HashSet's iterator may yield the elements of S
IterOrders(S) ==
    {s \in [1 .. Cardinality(S) -> S] :
        \A i, j \in 1 .. Cardinality(S) : i # j => s[i] # s[j]}

\* state of the program while no Tarjan value exists
NoTarjan ==
    /\ meta' = << >>
    /\ dfs' = << >>
    /\ backtrack' = << >>
    /\ index' = 0
    /\ label' = 0
    /\ nr' = 0

Results(out) == {out[i] : i \in 1 .. Len(out)}

\* history of the previous computation, kept while the graph is as that
\* computation left it ("rerun": all of its results) or has had exactly one
\* remove_edge call since ("removed": the Groups it emitted)
NoPrev == [kind |-> "none", results |-> {}]

PrevRerun(out) == [kind |-> "rerun", results |-> Results(out)]

PrevRemoved(out) ==
    [kind |-> "removed", results |-> {r \in Results(out) : r.tag = "Group"}]

\* --------------------------------------------------------------------- Init
Init ==
    /\ igraph = IGraphNew
    /\ meta = << >>
    /\ dfs = << >>
    /\ backtrack = << >>
    /\ index = 0
    /\ label = 0
    /\ output = << >>
    /\ nr = 0
    /\ pc = "idle"
    /\ overflow_checks \in BOOLEAN
    /\ prev = NoPrev
    /\ vs = HashMapNew
    /\ ns = << >>
    /\ created = {}

\* ------------------------------------------------------------ graph mutation
Mutable == pc \in {"idle", "done"}

CreateNode ==
    /\ Mutable
    /\ igraph' = create_node(igraph)
    /\ pc' = "idle"
    /\ output' = << >>
    /\ prev' = NoPrev
    /\ NoTarjan
    /\ UNCHANGED <<overflow_checks, vs, ns, created>>

AddEdge(from, to) ==
    /\ Mutable
    /\ igraph' = add_edge(igraph, from, to)
    /\ pc' = "idle"
    /\ output' = << >>
    /\ prev' = NoPrev
    /\ NoTarjan
    /\ UNCHANGED <<overflow_checks, vs, ns, created>>

RemoveEdge(from, to) ==
    /\ Mutable
    /\ igraph' = remove_edge(igraph, from, to)
    /\ pc' = "idle"
    /\ output' = << >>
    /\ prev' = IF pc = "done"
               THEN PrevRemoved(output)
               ELSE NoPrev
    /\ NoTarjan
    /\ UNCHANGED <<overflow_checks, vs, ns, created>>

\* VGraph::create_node(val)
VCreateNode(val) ==
    /\ Mutable
    /\ igraph' = create_node(igraph)
    /\ vs' = insert(vs, val, create_node_ref(igraph))
    /\ ns' = Append(ns, val)
    /\ created' = created \cup {<<val, create_node_ref(igraph)>>}
    /\ pc' = "idle"
    /\ output' = << >>
    /\ prev' = NoPrev
    /\ NoTarjan
    /\ UNCHANGED overflow_checks

\* VGraph::add_edge(from, to); the Option it returns is dropped
VAddEdge(from, to) ==
    /\ Mutable
    /\ igraph' = vgraph_add_edge(igraph, vs, from, to).igraph
    /\ pc' = "idle"
    /\ output' = << >>
    /\ prev' = NoPrev
    /\ NoTarjan
    /\ UNCHANGED <<overflow_checks, vs, ns, created>>

\* ------------------------------------------------------------------- Tarjan
\* Tarjan::new followed by the entry into Tarjan::scc
TarjanNew ==
    /\ Mutable
    /\ meta' = [i \in 1 .. size(igraph) |-> [visited |-> FALSE, label |-> 0]]
    /\ output' = << >>
    /\ index' = 1
    /\ label' = size(igraph)
    /\ dfs' = << >>
    /\ backtrack' = << >>
    /\ nr' = 0
    /\ pc' = "scc"
    /\ prev' = IF pc = "done"
               THEN PrevRerun(output)
               ELSE prev
    /\ UNCHANGED <<igraph, overflow_checks, vs, ns, created>>

\* one iteration of the for loop of Tarjan::scc, or its end
SccFor ==
    /\ pc = "scc"
    /\ IF nr < size(igraph)
       THEN /\ nr' = nr + 1
            /\ IF ~ Visited(meta, nr)
               THEN /\ dfs' = Append(dfs, nr)
                    /\ pc' = "search"
               ELSE UNCHANGED <<dfs, pc>>
       ELSE /\ pc' = "cleanup"
            /\ UNCHANGED <<nr, dfs>>
    /\ UNCHANGED <<igraph, meta, backtrack, index, label, output,
                   overflow_checks, prev, vs, ns, created>>

\* Tarjan::search: the stack is empty, the loop breaks
SearchBreak ==
    /\ pc = "search"
    /\ Len(dfs) = 0
    /\ pc' = "scc"
    /\ UNCHANGED <<igraph, meta, dfs, backtrack, index, label, output, nr,
                   overflow_checks, prev, vs, ns, created>>

\* the children Tarjan::visit pushes: not visited and not the node itself
Pushed(m, g, n) == {c \in children(g, n) : ~ Visited(m, c) /\ c # n}

\* Tarjan::search with link == 0: Tarjan::visit(n)
Visit ==
    /\ pc = "search"
    /\ Len(dfs) # 0
    /\ LET n == Last(dfs)
       IN  /\ Label(meta, n) = 0
           /\ IF overflow_checks /\ UsizeAddOverflows(index, 1)
              THEN /\ pc' = "panicked"
                   /\ output' = << >>
                   /\ NoTarjan
              ELSE /\ \E order \in IterOrders(Pushed(meta, igraph, n)) :
                          dfs' = dfs \o order
                   /\ meta' = SetVisited(SetLabelTo(meta, n, index), n)
                   /\ index' = UsizeAdd(index, 1)
                   /\ UNCHANGED <<backtrack, label, output, nr, pc>>
    /\ UNCHANGED <<igraph, overflow_checks, prev, vs, ns, created>>

\* the minimum taken over the parents instead of the children
MinParentLabel(m, g, n) ==
    LET labels == ({m[c + 1].label : c \in g[n + 1].edge_in} \ {0}) \cup {Len(g)}
    IN  CHOOSE l \in labels : \A k \in labels : l <= k

\* Tarjan::backtrack: the minimum non-zero label of the children, size() if none
MinChildLabel(m, g, n) ==
    LET labels == ({Label(m, c) : c \in children(g, n)} \ {0}) \cup {size(g)}
    IN  CHOOSE l \in labels : \A k \in labels : l <= k

\* the comparison with <= in place of <
UnfinishedLe(min, link) == min <= link

\* Tarjan::backtrack: the group is not finished
Unfinished(min, link) == min < link

\* an if in place of the while: at most one node is popped
PopGroupOnce(bt, m, link) ==
    IF Len(bt) # 0 /\ m[bt[Len(bt)] + 1].label = link
    THEN SubSeq(bt, 1, Len(bt) - 1)
    ELSE bt

\* Tarjan::backtrack: what is left of the backtrack stack after popping the
\* nodes on top of it whose label is link
RECURSIVE PopGroup(_, _, _)
PopGroup(bt, m, link) ==
    IF Len(bt) # 0 /\ Label(m, Last(bt)) = link
    THEN PopGroup(Pop(bt), m, link)
    ELSE bt

\* Tarjan::backtrack: the group that is closed, n and the nodes popped
ClosedGroup(bt, m, n, link) ==
    {n} \cup {bt[i] : i \in (Len(PopGroup(bt, m, link)) + 1) .. Len(bt)}

\* Tarjan::search with link != 0: pop the node and Tarjan::backtrack(n, link)
Backtrack ==
    /\ pc = "search"
    /\ Len(dfs) # 0
    /\ LET n    == Last(dfs)
           link == Label(meta, n)
           min  == MinChildLabel(meta, igraph, n)
           rest == PopGroup(backtrack, meta, link)
           group == ClosedGroup(backtrack, meta, n, link)
       IN  /\ link # 0
           /\ IF Unfinished(min, link)
              THEN /\ dfs' = Pop(dfs)
                   /\ backtrack' = Append(backtrack, n)
                   /\ meta' = SetLabelTo(meta, n, min)
                   /\ UNCHANGED <<index, label, output, nr, pc>>
              ELSE IF overflow_checks /\
                      (\/ UsizeSubOverflows(label, 1)
                       \/ UsizeSubOverflows(index, Cardinality(group)))
              THEN /\ pc' = "panicked"
                   /\ output' = << >>
                   /\ NoTarjan
              ELSE /\ dfs' = Pop(dfs)
                   /\ backtrack' = rest
                   /\ meta' = SetLabelAll(meta, group, label)
                   /\ label' = UsizeSub(label, 1)
                   /\ index' = UsizeSub(index, Cardinality(group))
                   /\ output' = Append(output,
                                       IF Cardinality(group) = 1
                                       THEN Single(n) ELSE Group(group))
                   /\ UNCHANGED <<nr, pc>>
    /\ UNCHANGED <<igraph, overflow_checks, prev, vs, ns, created>>

\* one iteration of the while loop of Tarjan::cleanup; when the stack is
\* empty cleanup returns and scc returns the output
Cleanup ==
    /\ pc = "cleanup"
    /\ IF Len(backtrack) # 0
       THEN LET top == Last(backtrack)
            IN  IF overflow_checks /\
                   (UsizeSubOverflows(label, 1) \/ UsizeSubOverflows(index, 1))
                THEN /\ pc' = "panicked"
                     /\ output' = << >>
                     /\ NoTarjan
                ELSE /\ backtrack' = Pop(backtrack)
                     /\ meta' = SetLabelTo(meta, top, label)
                     /\ output' = Append(output, Single(top))
                     /\ label' = UsizeSub(label, 1)
                     /\ index' = UsizeSub(index, 1)
                     /\ UNCHANGED <<dfs, nr, pc>>
       ELSE /\ pc' = "done"
            /\ NoTarjan
            /\ UNCHANGED output
    /\ UNCHANGED <<igraph, overflow_checks, prev, vs, ns, created>>

TarjanNext == SccFor \/ SearchBreak \/ Visit \/ Backtrack \/ Cleanup

\* ------------------------------------------------------------ specifications
\* create_node() keeps the graph within max nodes
WithinNodes(max) == size(igraph) < max

\* add_edge(from, to) keeps the graph within max edges
WithinEdges(max, from, to) ==
    Cardinality(Edges(igraph)) < max \/ <<from, to>> \in Edges(igraph)

\* any caller: graphs of at most MaxNodes nodes and MaxEdges edges, and any
\* number of SCC computations between the mutations
Next ==
    \/ WithinNodes(MaxNodes) /\ CreateNode
    \/ \E from, to \in Handles(igraph) :
          WithinEdges(MaxEdges, from, to) /\ AddEdge(from, to)
    \/ \E from, to \in Handles(igraph) : RemoveEdge(from, to)
    \/ TarjanNew
    \/ TarjanNext

Spec == Init /\ [][Next]_vars

\* scc() on a graph that has been mutated since the last computation
SccOnce ==
    /\ pc = "idle"
    /\ TarjanNew

\* a caller that builds graphs of at most MaxDenseEdges edges with
\* create_node and add_edge and computes the components of each once
NextDense ==
    \/ WithinNodes(MaxNodes) /\ CreateNode
    \/ \E from, to \in Handles(igraph) :
          WithinEdges(MaxDenseEdges, from, to) /\ AddEdge(from, to)
    \/ SccOnce
    \/ TarjanNext

SpecDense == Init /\ [][NextDense]_vars

\* a caller that only builds and edits the graph
NextGraph ==
    \/ WithinNodes(MaxGraphNodes) /\ CreateNode
    \/ \E from, to \in Handles(igraph) :
          WithinEdges(MaxGraphEdges, from, to) /\ AddEdge(from, to)
    \/ \E from, to \in Handles(igraph) : RemoveEdge(from, to)

SpecGraph == Init /\ [][NextGraph]_vars

\* a caller that builds a graph of at most MaxGraphNodes nodes and
\* MaxGraphEdges edges and calls scc(); a computation that has started keeps
\* taking steps, since scc() runs on the caller's thread without suspension
NextLive ==
    \/ WithinNodes(MaxGraphNodes) /\ CreateNode
    \/ \E from, to \in Handles(igraph) :
          WithinEdges(MaxGraphEdges, from, to) /\ AddEdge(from, to)
    \/ SccOnce
    \/ TarjanNext

SpecLive == Init /\ [][NextLive]_vars /\ WF_vars(TarjanNext)

\* a caller that only registers values in a Value Graph
NextVCreate ==
    \E val \in Values : WithinNodes(MaxCreated) /\ VCreateNode(val)

SpecVCreate == Init /\ [][NextVCreate]_vars

\* a caller of a Value Graph: its own create_node and add_edge, and the
\* operations of the inner graph that Deref and DerefMut hand out
NextVGraph ==
    \/ \E val \in Values : WithinNodes(MaxVNodes) /\ VCreateNode(val)
    \/ \E from, to \in Values :
          /\ \/ Cardinality(Edges(igraph)) < MaxVEdges
             \/ vgraph_add_edge(igraph, vs, from, to).igraph = igraph
          /\ VAddEdge(from, to)
    \/ WithinNodes(MaxVNodes) /\ CreateNode
    \/ \E from, to \in Handles(igraph) :
          WithinEdges(MaxVEdges, from, to) /\ AddEdge(from, to)
    \/ \E from, to \in Handles(igraph) : RemoveEdge(from, to)

SpecVGraph == Init /\ [][NextVGraph]_vars

\* the test do_stuff: eight create_node calls, the eight add_edge calls in
\* the order of the test, then one scc()
DoStuffNodes == 8

DoStuffEdges ==
    << <<4, 5>>, <<0, 1>>, <<3, 1>>, <<4, 3>>, <<2, 4>>, <<1, 2>>, <<0, 0>>, <<3, 3>> >>

DoStuffBuilt ==
    /\ size(igraph) = DoStuffNodes
    /\ \A i \in 1 .. Len(DoStuffEdges) : DoStuffEdges[i] \in Edges(igraph)

DoStuffBuild ==
    /\ pc = "idle"
    /\ IF size(igraph) < DoStuffNodes
       THEN igraph' = create_node(igraph)
       ELSE \E i \in 1 .. Len(DoStuffEdges) :
              /\ DoStuffEdges[i] \notin Edges(igraph)
              /\ \A j \in 1 .. (i - 1) : DoStuffEdges[j] \in Edges(igraph)
              /\ igraph' = add_edge(igraph, DoStuffEdges[i][1], DoStuffEdges[i][2])
    /\ UNCHANGED <<meta, dfs, backtrack, index, label, output, nr, pc,
                   overflow_checks, prev, vs, ns, created>>

DoStuffScc ==
    /\ pc = "idle"
    /\ DoStuffBuilt
    /\ TarjanNew

NextDoStuff == DoStuffBuild \/ DoStuffScc \/ TarjanNext

SpecDoStuff == Init /\ [][NextDoStuff]_vars

\* graphs made of simple cycles: n nodes and the edges i -> succ[i] of a
\* permutation succ without fixed point that has one or two orbits
RECURSIVE Nodes(_)
Nodes(n) == IF n = 0 THEN IGraphNew ELSE create_node(Nodes(n - 1))

RECURSIVE WithSuccEdges(_, _, _)
WithSuccEdges(g, succ, k) ==
    IF k = 0 THEN g
    ELSE add_edge(WithSuccEdges(g, succ, k - 1), k - 1, succ[k - 1])

CycleGraph(n, succ) == WithSuccEdges(Nodes(n), succ, n)

RECURSIVE Closure(_, _)
Closure(g, S) ==
    LET T == S \cup UNION {children(g, x) : x \in S}
    IN  IF T = S THEN S ELSE Closure(g, T)

\* the nodes reachable from a along one or more outgoing edges
ReachableFrom(g, a) == Closure(g, children(g, a))

MutuallyReachable(g, a, b) ==
    b \in ReachableFrom(g, a) /\ a \in ReachableFrom(g, b)

\* the strongly connected component of a
Component(g, a) ==
    {a} \cup {b \in ReachableFrom(g, a) : a \in ReachableFrom(g, b)}

Components(g) == {Component(g, a) : a \in Handles(g)}

InitCycles ==
    /\ \E n \in 2 .. MaxCycleNodes :
         \E succ \in Permutations(0 .. (n - 1)) :
            /\ \A i \in 0 .. (n - 1) : succ[i] # i
            /\ Cardinality(Components(CycleGraph(n, succ))) <= 2
            /\ igraph = CycleGraph(n, succ)
    /\ meta = << >>
    /\ dfs = << >>
    /\ backtrack = << >>
    /\ index = 0
    /\ label = 0
    /\ output = << >>
    /\ nr = 0
    /\ pc = "idle"
    /\ overflow_checks \in BOOLEAN
    /\ prev = NoPrev
    /\ vs = HashMapNew
    /\ ns = << >>
    /\ created = {}

NextCycles == SccOnce \/ TarjanNext

SpecCycles == InitCycles /\ [][NextCycles]_vars

\* ------------------------------------------------------------------- claims
\* the number of emitted results that mention node h
Mentions(out, h) == Cardinality({i \in 1 .. Len(out) : h \in out[i].nodes})

\* the results are the strongly connected components of g, each listed once
ResultsAreComponents(g, out) ==
    /\ \A i \in 1 .. Len(out) : \A x \in out[i].nodes : out[i].nodes = Component(g, x)
    /\ \A h \in Handles(g) : Mentions(out, h) = 1

\* node n is emitted as a Single and is in no Group
EmittedAsSingle(out, n) ==
    /\ Single(n) \in Results(out)
    /\ \A i \in 1 .. Len(out) : out[i].tag = "Group" => n \notin out[i].nodes

\* C1: in the sequence returned by the SCC computation every node handle
\* 0..size()-1 is mentioned by exactly one result.
C1_EveryNodeInExactlyOneResult ==
    pc = "done" => \A h \in Handles(igraph) : Mentions(output, h) = 1

\* C2: two distinct nodes are in the same emitted result exactly when each is
\* reachable from the other; every Group is one maximal set of mutually
\* reachable nodes and every Single is mutually reachable with no other node.
C2_SameResultIffMutuallyReachable ==
    pc = "done" =>
        /\ \A a, b \in Handles(igraph) :
              a # b =>
                ((\E i \in 1 .. Len(output) : {a, b} \subseteq output[i].nodes)
                    <=> MutuallyReachable(igraph, a, b))
        /\ \A i \in 1 .. Len(output) :
              \A x \in output[i].nodes : output[i].nodes = Component(igraph, x)

\* C3: on the graph of do_stuff the computation does not fault and returns
\* exactly five results: the Group {1,2,3,4} and the Singles 0, 5, 6 and 7.
C3_DoStuffOutput ==
    /\ pc # "panicked"
    /\ pc = "done" =>
          /\ Len(output) = 5
          /\ Results(output) =
                {Group({1, 2, 3, 4}), Single(0), Single(5), Single(6), Single(7)}

C3_Witness ==
    /\ pc = "done"
    /\ DoStuffBuilt
    /\ Group({1, 2, 3, 4}) \in Results(output)

\* g is one simple directed cycle through all of its nodes, at least two
IsOneCycle(g) ==
    /\ size(g) >= 2
    /\ \A n \in Handles(g) : Cardinality(children(g, n)) = 1 /\ n \notin children(g, n)
    /\ \A n \in Handles(g) : ReachableFrom(g, n) = Handles(g)

\* g is two simple directed cycles on disjoint node sets, no edge between them
IsTwoCycles(g) ==
    /\ \A n \in Handles(g) :
          /\ Cardinality(children(g, n)) = 1
          /\ Cardinality(parents(g, n)) = 1
          /\ n \notin children(g, n)
    /\ Cardinality(Components(g)) = 2

\* C4: on a graph that is one simple cycle through all N >= 2 nodes the
\* computation does not fault and returns exactly one result, a Group of all
\* N nodes.
C4_OneCycleOneGroup ==
    /\ pc = "panicked" => ~ IsOneCycle(igraph)
    /\ (pc = "done" /\ IsOneCycle(igraph)) => output = << Group(Handles(igraph)) >>

C4_Witness ==
    /\ pc = "done"
    /\ IsOneCycle(igraph)
    /\ size(igraph) >= 3
    /\ output = << Group(Handles(igraph)) >>

\* C5: on two disjoint simple cycles the computation does not fault and
\* returns exactly two results, both Groups, one per cycle, each equal to the
\* node set of its cycle.
C5_TwoCyclesTwoGroups ==
    /\ pc = "panicked" => ~ IsTwoCycles(igraph)
    /\ (pc = "done" /\ IsTwoCycles(igraph)) =>
          /\ Len(output) = 2
          /\ Results(output) = {Group(c) : c \in Components(igraph)}

C5_Witness ==
    /\ pc = "done"
    /\ IsTwoCycles(igraph)
    /\ Len(output) = 2
    /\ \E i, j \in 1 .. 2 : Cardinality(output[i].nodes) > Cardinality(output[j].nodes)

\* C6: a node without self-loop from which no path leads back to itself is
\* emitted as Single and never as a member of a Group.
C6_AcyclicNodeIsSingle ==
    pc = "done" =>
        \A n \in Handles(igraph) :
            n \notin ReachableFrom(igraph, n) => EmittedAsSingle(output, n)

\* C7: a node with a self-loop that lies on no cycle through another node is
\* emitted as Single and never as a member of a Group.
C7_SelfLoopNodeIsSingle ==
    pc = "done" =>
        \A n \in Handles(igraph) :
            (n \in children(igraph, n) /\ Component(igraph, n) = {n})
                => EmittedAsSingle(output, n)

\* C8: when a computation emitted a Group G and one remove_edge call then left
\* no cycle among the nodes of G, the next computation emits every node of G
\* as a Single; and its results are the mutually reachable sets of the graph
\* as it is after the removal.
C8_RecomputeAfterRemoveEdge ==
    (pc = "done" /\ prev.kind = "removed") =>
        \A G \in prev.results :
            (\A n \in G.nodes : n \notin ReachableFrom(igraph, n)) =>
                /\ \A n \in G.nodes : EmittedAsSingle(output, n)
                /\ ResultsAreComponents(igraph, output)

\* C9: two computations on the same graph report the same partition, whatever
\* the order in which the children were pushed.
C9_PartitionIndependentOfOrder ==
    (pc = "done" /\ prev.kind = "rerun") =>
        {r.nodes : r \in Results(output)} = {r.nodes : r \in prev.results}

\* C10: add_edge(from, to) twice leaves the graph as add_edge(from, to) once
\* does, for all valid handles, from == to included.
C10_AddEdgeIdempotent ==
    \A from, to \in Handles(igraph) :
        add_edge(add_edge(igraph, from, to), from, to) = add_edge(igraph, from, to)

C10_Witness ==
    /\ \E n \in Handles(igraph) : n \in children(igraph, n)
    /\ \E from, to \in Handles(igraph) : from # to /\ to \in children(igraph, from)

\* C11: remove_edge(from, to) takes to out of children(from) and from out of
\* parents(to) and changes nothing else; when the edge is not there the whole
\* graph is left as it was.
C11_RemoveEdgeFrame ==
    \A from, to \in Handles(igraph) :
        LET g2 == remove_edge(igraph, from, to)
        IN  /\ size(g2) = size(igraph)
            /\ children(g2, from) = children(igraph, from) \ {to}
            /\ parents(g2, to) = parents(igraph, to) \ {from}
            /\ \A n \in Handles(igraph) :
                  /\ n # from => children(g2, n) = children(igraph, n)
                  /\ n # to => parents(g2, n) = parents(igraph, n)
            /\ <<from, to>> \notin Edges(igraph) => g2 = igraph

C11_Witness ==
    /\ \E e \in Edges(igraph) : remove_edge(igraph, e[1], e[2]) # igraph
    /\ \E from, to \in Handles(igraph) :
          from # to /\ <<from, to>> \notin Edges(igraph) /\ <<to, from>> \in Edges(igraph)

\* C12: a step that changes size() is a create_node call: the handle it
\* returns is size() before the call, size() grows by exactly one, the new
\* node has empty children and parents, every existing node keeps its sets;
\* no step makes size() smaller, so the handles returned are strictly
\* increasing.
C12_CreateNodeAppends ==
    [][ /\ size(igraph') >= size(igraph)
        /\ size(igraph') # size(igraph) =>
              /\ create_node_ref(igraph) = size(igraph)
              /\ size(igraph') = size(igraph) + 1
              /\ children(igraph', create_node_ref(igraph)) = {}
              /\ parents(igraph', create_node_ref(igraph)) = {}
              /\ \A n \in Handles(igraph) : igraph'[n + 1] = igraph[n + 1] ]_vars

C12_Witness ==
    /\ size(igraph) >= 2
    /\ Edges(igraph) # {}
    /\ create_node_ref(igraph) = size(igraph)

\* C13: every handle stored in a children or parents set is smaller than size().
C13_StoredHandlesValid ==
    \A n \in Handles(igraph) :
        \A h \in children(igraph, n) \cup parents(igraph, n) : h \in Handles(igraph)

C13_Witness ==
    /\ size(igraph) >= 2
    /\ size(igraph) - 1 \in children(igraph, 0)
    /\ 0 \in parents(igraph, size(igraph) - 1)

\* C19: b is in children(a) exactly when a is in parents(b).
C19_EdgeSetsMirror ==
    \A a, b \in Handles(igraph) :
        b \in children(igraph, a) <=> a \in parents(igraph, b)

C19_Witness ==
    /\ \E a, b \in Handles(igraph) :
          a # b /\ b \in children(igraph, a) /\ a \notin children(igraph, b)
    /\ \E a \in Handles(igraph) : a \in children(igraph, a) /\ a \in parents(igraph, a)

\* the nodes on a stack
OnStack(st) == {st[i] : i \in 1 .. Len(st)}

\* node n has had its backtrack step: it is deferred or emitted
Backtracked(n) == n \in OnStack(backtrack) \/ Mentions(output, n) > 0

\* C16: the visit step and the backtrack step run exactly once for each node:
\* search never visits a node that is already visited, never backtracks a
\* node that has already been backtracked, and when the for loop has ended
\* every node has been visited and backtracked.
C16_EachNodeProcessedOnce ==
    /\ (pc = "search" /\ Len(dfs) # 0) =>
          /\ Label(meta, Last(dfs)) = 0 => ~ Visited(meta, Last(dfs))
          /\ Label(meta, Last(dfs)) # 0 => ~ Backtracked(Last(dfs))
    /\ pc = "cleanup" =>
          \A n \in Handles(igraph) : Visited(meta, n) /\ Backtracked(n)

\* the computation is between Tarjan::new and its return
Running == pc \in {"scc", "search", "cleanup"}

\* C18: the counters never underflow: label is at least 1 before each
\* label -= 1, index is at least the amount subtracted before each
\* index -= ..., label stays in 0..size(), index stays at least 1, and no
\* subtraction faults.
C18_CountersNeverUnderflow ==
    /\ pc # "panicked"
    /\ Running => (label \in 0 .. size(igraph) /\ index >= 1)
    /\ (pc = "search" /\ Len(dfs) # 0) =>
          LET n    == Last(dfs)
              link == Label(meta, n)
          IN  (link # 0 /\ ~ Unfinished(MinChildLabel(meta, igraph, n), link)) =>
                  /\ label >= 1
                  /\ index >= Cardinality(ClosedGroup(backtrack, meta, n, link))
    /\ (pc = "cleanup" /\ Len(backtrack) # 0) => (label >= 1 /\ index >= 1)

\* C17: the SCC computation terminates: once started it reaches the return
\* of scc(), with the for loop over, the dfs stack and the backtrack stack
\* empty and the output returned.
C17_SccTerminates == Running ~> pc = "done"

\* every computation ends, by returning or by a fault
SccEnds == Running ~> pc \in {"done", "panicked"}

\* C14: node(v) is the handle create_node(v) returned and value(h) is the
\* value h was created for, for every create_node(v) call made, the calls
\* that repeat a value included.
C14_NodeValueRoundTrip ==
    \A c \in created :
        /\ node(vs, c[1]) = Some(c[2])
        /\ value_in_bounds(ns, c[2])
        /\ value(ns, c[2]) = c[1]

\* C15: the reverse sequence has exactly one entry per node of the inner
\* graph, so value(h) is defined for every handle of the inner graph.
C15_ReverseSequenceCoversNodes ==
    /\ Len(ns) = size(igraph)
    /\ \A h \in Handles(igraph) : value_in_bounds(ns, h)

\* C20: VGraph::add_edge(from, to) returns Some(()) and adds exactly the
\* edge node(from) -> node(to) when both values are registered; otherwise it
\* returns None and leaves the inner graph as it was.
C20_AddEdgeByValue ==
    \A from, to \in Values :
        LET r == vgraph_add_edge(igraph, vs, from, to)
        IN  IF from \in DOMAIN vs /\ to \in DOMAIN vs
            THEN /\ r.ret = Some(Unit)
                 /\ r.igraph = add_edge(igraph, vs[from], vs[to])
            ELSE /\ r.ret = None
                 /\ r.igraph = igraph

====
